---------------------------- MODULE Spec2Model ----------------------------
(***************************************************************************)
(* Model of the task manager in src/src/main.rs: the in-memory TaskManager *)
(* (tasks, next_id), its operations, the command loop of main, and the     *)
(* JSON file it is saved to and loaded from.                               *)
(*                                                                         *)
(* A Rust String is a sequence of one-character strings.  An Option<T> is  *)
(* a sequence of length 0 (None) or 1 (Some).  A NaiveDate is a record     *)
(* [y, m, d].                                                              *)
(***************************************************************************)
EXTENDS Integers, Sequences, FiniteSets, TLC

(***************************************************************************)
(* Bounds of the model.                                                    *)
(***************************************************************************)
MaxTasks == 2      \* tasks held by the store at once
MaxId == 2         \* ids a store hands out before Add Task is cut off

(***************************************************************************)
(* Strings.                                                                *)
(***************************************************************************)
None == <<>>
Some(x) == <<x>>

Upper == <<"A", "B", "C", "U">>
Lower == <<"a", "b", "c", "u">>

\* char::to_lowercase
char_to_lowercase(c) ==
    IF \E i \in 1..Len(Upper) : Upper[i] = c
    THEN Lower[CHOOSE i \in 1..Len(Upper) : Upper[i] = c]
    ELSE c

\* str::to_lowercase
to_lowercase(s) == [i \in 1..Len(s) |-> char_to_lowercase(s[i])]

is_whitespace(c) == c = " "

RECURSIVE trim_start(_)
trim_start(s) ==
    IF s # <<>> /\ is_whitespace(Head(s)) THEN trim_start(Tail(s)) ELSE s

RECURSIVE trim_end(_)
trim_end(s) ==
    IF s # <<>> /\ is_whitespace(s[Len(s)])
    THEN trim_end(SubSeq(s, 1, Len(s) - 1))
    ELSE s

\* str::trim
trim(s) == trim_end(trim_start(s))

\* str::split(sep) for a one-character separator: n separators give n+1
\* pieces, the empty string gives one empty piece.
RECURSIVE split(_, _)
split(s, sep) ==
    IF \E i \in 1..Len(s) : s[i] = sep
    THEN LET i == CHOOSE k \in 1..Len(s) :
                      s[k] = sep /\ \A j \in 1..(k - 1) : s[j] # sep
         IN  <<SubSeq(s, 1, i - 1)>> \o split(SubSeq(s, i + 1, Len(s)), sep)
    ELSE <<s>>

\* [String]::join(sep)
RECURSIVE join(_, _)
join(v, sep) ==
    IF v = <<>> THEN <<>>
    ELSE IF Len(v) = 1 THEN v[1]
    ELSE v[1] \o sep \o join(Tail(v), sep)

\* str::contains(pat): pat occurs in s as a contiguous substring
RECURSIVE str_contains(_, _)
str_contains(s, pat) ==
    IF Len(pat) > Len(s) THEN FALSE
    ELSE IF SubSeq(s, 1, Len(pat)) = pat THEN TRUE
    ELSE str_contains(Tail(s), pat)

\* Vec<String>::contains(x)
RECURSIVE vec_contains(_, _)
vec_contains(v, x) ==
    IF v = <<>> THEN FALSE
    ELSE IF Head(v) = x THEN TRUE
    ELSE vec_contains(Tail(v), x)

\* .filter(|s| !s.is_empty()).collect()
RECURSIVE filter_non_empty(_)
filter_non_empty(v) ==
    IF v = <<>> THEN <<>>
    ELSE IF Head(v) # <<>> THEN <<Head(v)>> \o filter_non_empty(Tail(v))
    ELSE filter_non_empty(Tail(v))

\* The tag pipeline without the trim.
parse_tags_no_trim(s) ==
    LET pieces == split(s, ",")
    IN  filter_non_empty([i \in 1..Len(pieces) |-> to_lowercase(pieces[i])])

\* The tag pipeline of Add Task and of edit_task:
\* split(',') . map(trim . to_lowercase) . filter(non-empty) . collect
parse_tags(s) ==
    LET pieces == split(s, ",")
    IN  filter_non_empty([i \in 1..Len(pieces) |-> to_lowercase(trim(pieces[i]))])


(***************************************************************************)
(* Numbers and dates.                                                      *)
(***************************************************************************)
Digits == <<"0", "1", "2", "3", "4", "5", "6", "7", "8", "9">>

is_digit(c) == \E i \in 1..10 : Digits[i] = c

digit_value(c) == (CHOOSE i \in 1..10 : Digits[i] = c) - 1

\* The decimal value of a string of digits.
RECURSIVE digits_value(_)
digits_value(s) ==
    IF s = <<>> THEN 0
    ELSE 10 * digits_value(SubSeq(s, 1, Len(s) - 1)) + digit_value(s[Len(s)])

\* A number of 1 to `width` digits, or -1 (no number).
scan_number(s, width) ==
    IF Len(s) >= 1 /\ Len(s) <= width /\ \A i \in 1..Len(s) : is_digit(s[i])
    THEN digits_value(s)
    ELSE -1

\* The decimal digits of n, as integer Display prints them.
RECURSIVE to_digits(_)
to_digits(n) ==
    IF n < 10 THEN <<Digits[n + 1]>>
    ELSE to_digits(n \div 10) \o <<Digits[(n % 10) + 1]>>

\* n printed zero-padded to at least `width` digits.
pad_zero(n, width) ==
    LET d == to_digits(n)
    IN  IF Len(d) >= width THEN d
        ELSE [i \in 1..(width - Len(d)) |-> "0"] \o d

is_leap_year(y) == (y % 4 = 0 /\ y % 100 # 0) \/ y % 400 = 0

days_in_month(y, m) ==
    IF m = 2 THEN (IF is_leap_year(y) THEN 29 ELSE 28)
    ELSE IF m \in {4, 6, 9, 11} THEN 30
    ELSE 31

\* NaiveDate::from_ymd_opt
from_ymd_opt(y, m, d) ==
    IF m >= 1 /\ m <= 12 /\ d >= 1 /\ d <= days_in_month(y, m)
    THEN Some([y |-> y, m |-> m, d |-> d])
    ELSE None

\* NaiveDate::parse_from_str(input, "%Y-%m-%d"): a year of 1 to 4 digits,
\* "-", a month of 1 to 2 digits, "-", a day of 1 to 2 digits, naming a
\* date of the calendar.  Some(date) or None (the Err case).
parse_from_str(input) ==
    LET parts == split(input, "-")
    IN  IF Len(parts) # 3 THEN None
        ELSE LET y == scan_number(parts[1], 4)
                 m == scan_number(parts[2], 2)
                 d == scan_number(parts[3], 2)
             IN  IF y < 0 \/ m < 0 \/ d < 0 THEN None
                 ELSE from_ymd_opt(y, m, d)

\* str::parse::<NaiveDate>() (FromStr for NaiveDate), then .ok(): the same
\* year-month-day grammar.
parse_date(s) == parse_from_str(s)

\* A date written year/month/day.
format_date_slashes(date) ==
    pad_zero(date.y, 4) \o <<"/">> \o pad_zero(date.m, 2) \o <<"/">> \o pad_zero(date.d, 2)

\* NaiveDate's Display / Serialize form, %Y-%m-%d zero-padded.
format_date(date) ==
    pad_zero(date.y, 4) \o <<"-">> \o pad_zero(date.m, 2) \o <<"-">> \o pad_zero(date.d, 2)

\* Ord for NaiveDate: calendar order.
date_lt(a, b) ==
    \/ a.y < b.y
    \/ a.y = b.y /\ a.m < b.m
    \/ a.y = b.y /\ a.m = b.m /\ a.d < b.d

(***************************************************************************)
(* JSON text of the store (serde_json).  The document is kept as its tree  *)
(* of tokens: numbers as their digits, strings as their escaped            *)
(* characters, null as None.                                               *)
(***************************************************************************)
\* A string's characters as written between the quotes of a JSON string.
RECURSIVE json_escape(_)
json_escape(s) ==
    IF s = <<>> THEN <<>>
    ELSE IF Head(s) \in {"\"", "\\"} THEN <<"\\", Head(s)>> \o json_escape(Tail(s))
    ELSE <<Head(s)>> \o json_escape(Tail(s))

\* The string a JSON string's characters stand for; a lone trailing
\* backslash cannot occur in a complete document.
RECURSIVE json_unescape(_)
json_unescape(s) ==
    IF s = <<>> THEN <<>>
    ELSE IF Head(s) = "\\" /\ Len(s) >= 2 THEN <<s[2]>> \o json_unescape(Tail(Tail(s)))
    ELSE <<Head(s)>> \o json_unescape(Tail(s))

\* #[derive(Serialize)] for Task
serialize_task(t) ==
    [id |-> to_digits(t.id),
     description |-> json_escape(t.description),
     completed |-> IF t.completed THEN "true" ELSE "false",
     tags |-> [i \in 1..Len(t.tags) |-> json_escape(t.tags[i])],
     due_date |-> IF t.due_date = None THEN None
                  ELSE Some(json_escape(format_date(t.due_date[1])))]

\* serde_json::to_string_pretty(self) for a TaskManager
to_string_pretty(ts, n) ==
    [kind |-> "json",
     tasks |-> [i \in 1..Len(ts) |-> serialize_task(ts[i])],
     next_id |-> to_digits(n)]

\* The content of a file whose write stopped part-way: no JSON document.
Truncated == [kind |-> "truncated", tasks |-> <<>>, next_id |-> <<>>]

\* Whether a serialized task deserializes (its due date is null or a date).
task_parses(j) ==
    j.due_date = None \/ parse_date(json_unescape(j.due_date[1])) # None

\* #[derive(Deserialize)] for Task
deserialize_task(j) ==
    [id |-> digits_value(j.id),
     description |-> json_unescape(j.description),
     completed |-> (j.completed = "true"),
     tags |-> [i \in 1..Len(j.tags) |-> json_unescape(j.tags[i])],
     due_date |-> IF j.due_date = None THEN None
                  ELSE parse_date(json_unescape(j.due_date[1]))]

\* serde_json::from_str::<TaskManager>(&contents): [ok, tasks, next_id]
from_str(contents) ==
    IF contents.kind = "json" /\ \A i \in 1..Len(contents.tasks) : task_parses(contents.tasks[i])
    THEN [ok |-> TRUE,
          tasks |-> [i \in 1..Len(contents.tasks) |-> deserialize_task(contents.tasks[i])],
          next_id |-> digits_value(contents.next_id)]
    ELSE [ok |-> FALSE, tasks |-> <<>>, next_id |-> 0]

(***************************************************************************)
(* TaskManager: the operations on the task vector.                         *)
(***************************************************************************)
\* iter().position(|t| t.id == id) / iter_mut().find(|t| t.id == id):
\* the index of the first task with this id, 0 when there is none.
position(ts, id) ==
    IF \E i \in 1..Len(ts) : ts[i].id = id
    THEN CHOOSE i \in 1..Len(ts) : ts[i].id = id /\ \A j \in 1..(i - 1) : ts[j].id # id
    ELSE 0

\* Vec::remove(pos)
remove(ts, pos) == SubSeq(ts, 1, pos - 1) \o SubSeq(ts, pos + 1, Len(ts))

\* complete_task taking the id for an index into the vector.
complete_by_index(ts, id) ==
    LET pos == IF id <= Len(ts) THEN id ELSE 0
    IN  IF pos # 0
        THEN LET task == [ts[pos] EXCEPT !.completed = TRUE]
             IN  [tasks |-> [ts EXCEPT ![pos] = task], ret |-> Some(task)]
        ELSE [tasks |-> ts, ret |-> None]

\* complete_task flipping the flag instead of setting it.
complete_toggle(ts, id) ==
    LET pos == position(ts, id)
    IN  IF pos # 0
        THEN LET task == [ts[pos] EXCEPT !.completed = ~@]
             IN  [tasks |-> [ts EXCEPT ![pos] = task], ret |-> Some(task)]
        ELSE [tasks |-> ts, ret |-> None]

\* TaskManager::complete_task: the new vector and the Option<&Task> returned
complete_task(ts, id) ==
    LET pos == position(ts, id)
    IN  IF pos # 0
        THEN LET task == [ts[pos] EXCEPT !.completed = TRUE]
             IN  [tasks |-> [ts EXCEPT ![pos] = task], ret |-> Some(task)]
        ELSE [tasks |-> ts, ret |-> None]

\* delete_task taking the last task off the vector (Vec::pop) instead of
\* the one at the position found.
delete_pop(ts, id) ==
    LET pos == position(ts, id)
    IN  IF pos # 0
        THEN [tasks |-> remove(ts, Len(ts)), ret |-> Some(ts[pos])]
        ELSE [tasks |-> ts, ret |-> None]

\* delete_task falling back to the last position when no task has the id
\* (position(..).unwrap_or(len - 1)).
delete_or_last(ts, id) ==
    LET found == position(ts, id)
        pos == IF found # 0 THEN found ELSE Len(ts)
    IN  IF pos # 0
        THEN [tasks |-> remove(ts, pos), ret |-> IF found # 0 THEN Some(ts[pos]) ELSE None]
        ELSE [tasks |-> ts, ret |-> None]

\* TaskManager::delete_task: the new vector and the Option<Task> returned
delete_task(ts, id) ==
    LET pos == position(ts, id)
    IN  IF pos # 0
        THEN [tasks |-> remove(ts, pos), ret |-> Some(ts[pos])]
        ELSE [tasks |-> ts, ret |-> None]

\* Input::default(d).interact(): an empty line gives the default
with_default(input, d) == IF input = <<>> THEN d ELSE input

\* The validator of the due date prompts: empty, or a %Y-%m-%d date
validate_due_date(input) == input = <<>> \/ parse_from_str(input) # None

\* edit_task setting the due date only when the line parses.
edit_task_keep_due(ts, id, in) ==
    LET pos == position(ts, id)
    IN  IF pos # 0
        THEN LET description == with_default(in.description, ts[pos].description)
                 tags == parse_tags(with_default(in.tags, join(ts[pos].tags, <<",", " ">>)))
                 due == parse_date(in.due_date)
                 task == [ts[pos] EXCEPT !.description = description,
                                         !.due_date = IF due = None THEN @ ELSE due,
                                         !.tags = tags]
             IN  [tasks |-> [ts EXCEPT ![pos] = task], ret |-> Some(task)]
        ELSE [tasks |-> ts, ret |-> None]

\* edit_task building the task anew, as Add Task does, with completed:
\* false.
edit_task_reopen(ts, id, in) ==
    LET pos == position(ts, id)
    IN  IF pos # 0
        THEN LET description == with_default(in.description, ts[pos].description)
                 tags == parse_tags(with_default(in.tags, join(ts[pos].tags, <<",", " ">>)))
                 task == [ts[pos] EXCEPT !.description = description,
                                         !.completed = FALSE,
                                         !.due_date = parse_date(in.due_date),
                                         !.tags = tags]
             IN  [tasks |-> [ts EXCEPT ![pos] = task], ret |-> Some(task)]
        ELSE [tasks |-> ts, ret |-> None]

\* TaskManager::edit_task with the three lines the user types at its
\* prompts, in = [description, due_date, tags]; nothing is asked when no
\* task has the id.
edit_task(ts, id, in) ==
    LET pos == position(ts, id)
    IN  IF pos # 0
        THEN LET description == with_default(in.description, ts[pos].description)
                 tags == parse_tags(with_default(in.tags, join(ts[pos].tags, <<",", " ">>)))
                 task == [ts[pos] EXCEPT !.description = description,
                                         !.due_date = parse_date(in.due_date),
                                         !.tags = tags]
             IN  [tasks |-> [ts EXCEPT ![pos] = task], ret |-> Some(task)]
        ELSE [tasks |-> ts, ret |-> None]

\* The task built by the Add Task branch from the three lines typed
new_task(n, in) ==
    [id |-> n,
     description |-> in.description,
     completed |-> FALSE,
     tags |-> parse_tags(in.tags),
     due_date |-> parse_date(in.due_date)]

\* add_task putting the task in front (insert(0, task)).
add_task_front(ts, task) == <<task>> \o ts

\* TaskManager::add_task
add_task(ts, task) == Append(ts, task)

\* Add Task numbering the task by the length of the vector instead of by
\* the counter.
add_len_id(ts, n, in) ==
    LET task == new_task(Len(ts) + 1, in)
    IN  [tasks |-> add_task(ts, task), next_id |-> Len(ts) + 2, ret |-> Some(task)]

\* Add Task without `manager.next_id += 1`.
add_no_bump(ts, n, in) ==
    LET task == new_task(n, in)
    IN  [tasks |-> add_task(ts, task), next_id |-> n, ret |-> Some(task)]

\* The Add Task branch on the manager (ts, n): the task takes id n, the
\* counter goes up by one, the task is pushed.
add(ts, n, in) ==
    LET task == new_task(n, in)
    IN  [tasks |-> add_task(ts, task), next_id |-> n + 1, ret |-> Some(task)]

\* A fresh manager counting from 0.
new_zero == [ok |-> TRUE, tasks |-> <<>>, next_id |-> 0]

\* TaskManager::new
new == [ok |-> TRUE, tasks |-> <<>>, next_id |-> 1]

\* load taking the counter from the tasks it read (largest id + 1) instead
\* of from the file.
load_recount(f) ==
    LET m == IF f.exists THEN from_str(f.contents) ELSE new
        ids == {m.tasks[i].id : i \in 1..Len(m.tasks)}
    IN  IF m.ok
        THEN [m EXCEPT !.next_id =
                 IF ids = {} THEN 1 ELSE 1 + CHOOSE x \in ids : \A y \in ids : y <= x]
        ELSE m

\* load falling back to a fresh manager when the file does not parse
\* (from_str(..).unwrap_or_else(|_| TaskManager::new())).
load_or_new(f) ==
    IF f.exists /\ from_str(f.contents).ok THEN from_str(f.contents) ELSE new

\* TaskManager::load of a file that can be read: Ok(manager) as
\* [ok |-> TRUE, tasks, next_id], or the error of from_str.
load(f) == IF f.exists THEN from_str(f.contents) ELSE new

\* The status with the due date looked at before the completed flag.
status_due_first(task, today) ==
    IF task.due_date # None /\ date_lt(task.due_date[1], today) THEN "Overdue"
    ELSE IF task.due_date # None /\ task.due_date[1] = today THEN "DueToday"
    ELSE IF task.completed THEN "Done"
    ELSE "Pending"

\* The status column of list_tasks: "Done" is the green [x], "Overdue" the
\* red [!], "DueToday" the yellow [!], "Pending" the plain [ ].
status(task, today) ==
    IF task.completed THEN "Done"
    ELSE IF task.due_date # None /\ date_lt(task.due_date[1], today) THEN "Overdue"
    ELSE IF task.due_date # None /\ task.due_date[1] = today THEN "DueToday"
    ELSE "Pending"

\* The filter with || for &&: a task is skipped unless tag and description
\* both match.
skipped_or(task, filter) ==
    /\ filter # None
    /\ \/ ~vec_contains(task.tags, to_lowercase(filter[1]))
       \/ ~str_contains(to_lowercase(task.description), to_lowercase(filter[1]))

\* Whether the loop of list_tasks skips the task (the `continue`)
skipped(task, filter) ==
    /\ filter # None
    /\ ~vec_contains(task.tags, to_lowercase(filter[1]))
    /\ ~str_contains(to_lowercase(task.description), to_lowercase(filter[1]))

\* TaskManager::list_tasks: the lines printed, one per task not skipped
RECURSIVE list_tasks(_, _, _)
list_tasks(ts, filter, today) ==
    IF ts = <<>> THEN <<>>
    ELSE IF skipped(Head(ts), filter) THEN list_tasks(Tail(ts), filter, today)
    ELSE <<[status |-> status(Head(ts), today), task |-> Head(ts)]>>
             \o list_tasks(Tail(ts), filter, today)

(***************************************************************************)
(* What the user types and what the clock shows.                           *)
(***************************************************************************)
Line_2024_01_01 == <<"2", "0", "2", "4", "-", "0", "1", "-", "0", "1">>
Line_2024_3_5 == <<"2", "0", "2", "4", "-", "3", "-", "5">>
Line_2024_02_30 == <<"2", "0", "2", "4", "-", "0", "2", "-", "3", "0">>
Line_soon == <<"s", "o", "o", "n">>

Date_2024_01_01 == [y |-> 2024, m |-> 1, d |-> 1]
Date_2024_02_29 == [y |-> 2024, m |-> 2, d |-> 29]
Date_2024_03_05 == [y |-> 2024, m |-> 3, d |-> 5]

\* The three lines typed at the prompts of Add Task
AddInputs ==
    { [description |-> <<"A", "b">>, due_date |-> Line_2024_01_01,
       tags |-> <<" ", "B", ",", " ", ",", "c">>],
      [description |-> <<"c", "\"">>, due_date |-> <<>>,
       tags |-> <<"u", "B", ",", " ", "A", "B">>],
      [description |-> <<"A", "b">>, due_date |-> Line_2024_02_30, tags |-> <<>>],
      [description |-> <<>>, due_date |-> <<>>, tags |-> <<>>] }

\* The three lines typed at the prompts of Edit Task
EditInputs ==
    { [description |-> <<>>, due_date |-> <<>>, tags |-> <<>>],
      [description |-> <<"c", "\"">>, due_date |-> Line_2024_3_5,
       tags |-> <<"u", "B", " ", ",", "A", "B">>],
      [description |-> <<>>, due_date |-> Line_soon, tags |-> <<>>] }

\* The line typed at the prompt of Search Tasks
Filters == { <<"B">>, <<"a", "B">> }

\* Utc::now().naive_utc().date()
Todays == { Date_2024_01_01, Date_2024_02_29 }

\* The ids typed at the id prompts
Ids == 1..MaxId

(***************************************************************************)
(* The program: main's command loop over the manager and the data file.    *)
(***************************************************************************)
VARIABLES
    pc,           \* "start": before load; "menu": at the Select prompt;
                  \* "done": left through Exit; "failed": ended by an error
    tasks,        \* manager.tasks
    next_id,      \* manager.next_id (0 while there is no manager)
    file,         \* tasks.json: [exists, contents]
    last,         \* the last command of this run: [op, arg, ret, out], with
                  \* what was typed for it (and the day the clock showed),
                  \* the task it returned and the lines it printed
    assigned,     \* history: the ids the store's Add Tasks assigned, in order
    fileAssigned, \* history: `assigned` of the store the file was saved from
    maxDeleted    \* history: the largest id delete_task has removed in any
                  \* run so far (0: none)

vars == <<pc, tasks, next_id, file, last, assigned, fileAssigned, maxDeleted>>

NoFile == [exists |-> FALSE, contents |-> Truncated]

\* What a command was given: the id typed, the lines typed at the prompts of
\* Edit Task, the search line, the day read from the clock.
NoArg == [id |-> 0, in |-> None, filter |-> None, today |-> None]

NoCommand == [op |-> "none", arg |-> NoArg, ret |-> None, out |-> <<>>]

Init ==
    /\ pc = "start"
    /\ tasks = <<>>
    /\ next_id = 0
    /\ file = NoFile
    /\ last = NoCommand
    /\ assigned = <<>>
    /\ fileAssigned = <<>>
    /\ maxDeleted = 0

\* The state left when main returns an error: the process is gone and the
\* manager with it.
Ended ==
    /\ pc' = "failed"
    /\ tasks' = <<>>
    /\ next_id' = 0
    /\ assigned' = <<>>
    /\ last' = NoCommand

\* The state left when TaskManager::load(&data_file)? returns the error:
\* main ends before the loop, with no manager.
LoadError ==
    /\ pc' = "failed"
    /\ tasks' = <<>>
    /\ next_id' = 0
    /\ assigned' = <<>>
    /\ last' = [NoCommand EXCEPT !.op = "load"]

\* let mut manager = TaskManager::load(&data_file)?; an Err ends the run.
Load ==
    /\ pc = "start"
    /\ \/ LET manager == load(file)
          IN  IF manager.ok
              THEN /\ tasks' = manager.tasks
                   /\ next_id' = manager.next_id
                   /\ assigned' = IF file.exists THEN fileAssigned ELSE <<>>
                   /\ pc' = "menu"
                   /\ last' = NoCommand
              ELSE LoadError
       \/ /\ file.exists      \* fs::read_to_string failed
          /\ LoadError
    /\ UNCHANGED <<file, fileAssigned, maxDeleted>>

\* A loop turn that goes on when the save fails.
save_or_continue(ts, n, hist, cmd) ==
    /\ pc' = "menu"
    /\ tasks' = ts
    /\ next_id' = n
    /\ assigned' = hist
    /\ last' = cmd
    /\ \/ /\ file' = [exists |-> TRUE, contents |-> to_string_pretty(ts, n)]
          /\ fileAssigned' = hist
       \/ /\ file' \in {file, [exists |-> TRUE, contents |-> Truncated]}
          /\ fileAssigned' = fileAssigned

\* The end of a loop turn: the command has left the manager as (ts, n) and
\* `cmd` as its record.  manager.save(&data_file)? overwrites the file and
\* the loop goes on, or fs::write fails (leaving the file as it was, or cut
\* short) and main returns the error.
save(ts, n, hist, cmd) ==
    \/ /\ pc' = "menu"
       /\ tasks' = ts
       /\ next_id' = n
       /\ assigned' = hist
       /\ last' = cmd
       /\ file' = [exists |-> TRUE, contents |-> to_string_pretty(ts, n)]
       /\ fileAssigned' = hist
    \/ /\ file' \in {file, [exists |-> TRUE, contents |-> Truncated]}
       /\ fileAssigned' = fileAssigned
       /\ Ended

\* 0 => Add Task
AddTask(in) ==
    /\ pc = "menu"
    /\ next_id <= MaxId
    /\ Len(tasks) < MaxTasks
    /\ in.description # <<>>
    /\ validate_due_date(in.due_date)
    /\ LET r == add(tasks, next_id, in)
       IN  save(r.tasks, r.next_id, Append(assigned, r.ret[1].id),
                [op |-> "add", arg |-> [NoArg EXCEPT !.in = Some(in)],
                 ret |-> r.ret, out |-> <<>>])
    /\ UNCHANGED maxDeleted

\* 1 => List Tasks
ListTasks(today) ==
    /\ pc = "menu"
    /\ save(tasks, next_id, assigned,
            [op |-> "list", arg |-> [NoArg EXCEPT !.today = Some(today)],
             ret |-> None, out |-> list_tasks(tasks, None, today)])
    /\ UNCHANGED maxDeleted

\* 2 => Complete Task
CompleteTask(id) ==
    /\ pc = "menu"
    /\ LET r == complete_task(tasks, id)
       IN  save(r.tasks, next_id, assigned,
                [op |-> "complete", arg |-> [NoArg EXCEPT !.id = id],
                 ret |-> r.ret, out |-> <<>>])
    /\ UNCHANGED maxDeleted

\* 3 => Delete Task
DeleteTask(id) ==
    /\ pc = "menu"
    /\ LET r == delete_task(tasks, id)
       IN  /\ save(r.tasks, next_id, assigned,
                   [op |-> "delete", arg |-> [NoArg EXCEPT !.id = id],
                    ret |-> r.ret, out |-> <<>>])
           /\ maxDeleted' = IF r.ret # None /\ id > maxDeleted THEN id ELSE maxDeleted

\* 4 => Edit Task: the id is typed; edit_task asks for the three lines only
\* when a task has the id.
EditTask(id) ==
    /\ pc = "menu"
    /\ IF position(tasks, id) # 0
       THEN \E in \in EditInputs :
                /\ validate_due_date(in.due_date)
                /\ LET r == edit_task(tasks, id, in)
                   IN  save(r.tasks, next_id, assigned,
                            [op |-> "edit",
                             arg |-> [NoArg EXCEPT !.id = id, !.in = Some(in)],
                             ret |-> r.ret, out |-> <<>>])
       ELSE LET r == edit_task(tasks, id, [description |-> <<>>, due_date |-> <<>>,
                                           tags |-> <<>>])
            IN  save(r.tasks, next_id, assigned,
                     [op |-> "edit", arg |-> [NoArg EXCEPT !.id = id],
                      ret |-> r.ret, out |-> <<>>])
    /\ UNCHANGED maxDeleted

\* Search Tasks keeping in the store only the tasks it printed (retain).
SearchTasksRetain(filter, today) ==
    /\ pc = "menu"
    /\ LET out == list_tasks(tasks, Some(filter), today)
       IN  save([k \in 1..Len(out) |-> out[k].task], next_id, assigned,
                [op |-> "search",
                 arg |-> [NoArg EXCEPT !.filter = Some(filter), !.today = Some(today)],
                 ret |-> None, out |-> out])
    /\ UNCHANGED maxDeleted

\* 5 => Search Tasks
SearchTasks(filter, today) ==
    /\ pc = "menu"
    /\ save(tasks, next_id, assigned,
            [op |-> "search",
             arg |-> [NoArg EXCEPT !.filter = Some(filter), !.today = Some(today)],
             ret |-> None, out |-> list_tasks(tasks, Some(filter), today)])
    /\ UNCHANGED maxDeleted

\* 6 => break: the loop is left without a save
Exit ==
    /\ pc = "menu"
    /\ pc' = "done"
    /\ last' = [NoCommand EXCEPT !.op = "exit"]
    /\ UNCHANGED <<tasks, next_id, file, assigned, fileAssigned, maxDeleted>>

\* A prompt's interact() fails (`?` in main, unwrap in edit_task): the run
\* ends before the command has touched the manager, and without a save.
PromptError ==
    /\ pc = "menu"
    /\ Ended
    /\ UNCHANGED <<file, fileAssigned, maxDeleted>>

\* The program is started again: nothing of the last run is left but the file.
Restart ==
    /\ pc \in {"done", "failed"}
    /\ pc' = "start"
    /\ tasks' = <<>>
    /\ next_id' = 0
    /\ last' = NoCommand
    /\ assigned' = <<>>
    /\ UNCHANGED <<file, fileAssigned, maxDeleted>>

Next ==
    \/ Load
    \/ \E in \in AddInputs : AddTask(in)
    \/ \E today \in Todays : ListTasks(today)
    \/ \E id \in Ids : CompleteTask(id)
    \/ \E id \in Ids : DeleteTask(id)
    \/ \E id \in Ids : EditTask(id)
    \/ \E filter \in Filters, today \in Todays : SearchTasks(filter, today)
    \/ Exit
    \/ PromptError
    \/ Restart

Spec == Init /\ [][Next]_vars

(***************************************************************************)
(* The program started on a tasks.json that somebody wrote or changed by   *)
(* hand: load takes whatever serde_json::from_str accepts.                 *)
(***************************************************************************)
\* Two tasks as JSON objects, both with "id": 1
Json_Task_1 ==
    [id |-> <<"1">>, description |-> <<"A", "b">>, completed |-> "false",
     tags |-> <<>>, due_date |-> None]

Json_Task_1_again ==
    [id |-> <<"1">>, description |-> <<"c">>, completed |-> "true",
     tags |-> << <<"b">> >>, due_date |-> None]

\* Files that parse as a TaskManager: one with next_id equal to the id of
\* its task, one with two tasks of the same id, one as save would write it.
HandWrittenFiles ==
    { [exists |-> TRUE,
       contents |-> [kind |-> "json", tasks |-> <<Json_Task_1>>, next_id |-> <<"1">>]],
      [exists |-> TRUE,
       contents |-> [kind |-> "json", tasks |-> <<Json_Task_1, Json_Task_1_again>>,
                     next_id |-> <<"2">>]],
      [exists |-> TRUE,
       contents |-> [kind |-> "json", tasks |-> <<Json_Task_1>>, next_id |-> <<"2">>]] }

\* The first start of the program with such a file in the data directory.
InitAnyFile ==
    /\ pc = "start"
    /\ tasks = <<>>
    /\ next_id = 0
    /\ file \in HandWrittenFiles
    /\ last = NoCommand
    /\ assigned = <<>>
    /\ fileAssigned = <<>>
    /\ maxDeleted = 0

SpecAnyFile == InitAnyFile /\ [][Next]_vars

(***************************************************************************)
(* Properties.                                                             *)
(***************************************************************************)
\* A manager exists: the run has loaded one and has not ended by an error.
Running == pc \in {"menu", "done"}

\* C1: from a fresh store on, whatever commands are run, the ids that Add
\* Task assigned are strictly increasing in the order they were assigned,
\* and no two tasks in the store have the same id.
IdsIncreasingAndUnique ==
    /\ \A i, j \in 1..Len(assigned) : i < j => assigned[i] < assigned[j]
    /\ \A i, j \in 1..Len(tasks) : i # j => tasks[i].id # tasks[j].id

\* Two tasks added, both still in the store.
IdsIncreasingAndUniqueWitness ==
    pc = "menu" /\ Len(assigned) >= 2 /\ Len(tasks) >= 2

\* C2: an id that delete_task has removed is never given to a task by a
\* later Add Task, in this run or in a later one that loaded the file: the
\* task just added has an id above every id removed so far.  In particular
\* after add (id 1), delete 1, add, the second task has id 2.
DeletedIdNeverReassigned ==
    last.op = "add" =>
        /\ last.ret[1].id > maxDeleted
        /\ (Len(assigned) = 2 /\ Len(tasks) = 1) => last.ret[1].id = 2

\* add, delete 1, add: the store holds only the second task.
DeletedIdNeverReassignedWitness ==
    last.op = "add" /\ maxDeleted = 1 /\ Len(tasks) = 1 /\ Len(assigned) = 2

\* C3: next_id is strictly greater than every id the store has ever
\* assigned, the ids of deleted tasks included.
NextIdAboveAssigned ==
    Running => \A i \in 1..Len(assigned) : assigned[i] < next_id

\* A store one of whose assigned ids belongs to a deleted task.
NextIdAboveAssignedWitness ==
    pc = "menu" /\ Len(assigned) >= 2 /\ Len(tasks) < Len(assigned)

\* C4: saving a reachable store and loading what was written gives the
\* same tasks in the same order, field by field, and the same next_id.
SaveLoadRoundTrip ==
    Running =>
        from_str(to_string_pretty(tasks, next_id))
            = [ok |-> TRUE, tasks |-> tasks, next_id |-> next_id]

\* A store with a completed task, a task with a quote in its description
\* and a due date typed without zero padding, and a task with two tags.
SaveLoadRoundTripWitness ==
    /\ pc = "menu"
    /\ \E i \in 1..Len(tasks) : tasks[i].completed
    /\ \E i \in 1..Len(tasks) :
           /\ tasks[i].description = <<"c", "\"">>
           /\ tasks[i].due_date = Some(Date_2024_03_05)
    /\ \E i \in 1..Len(tasks) : Len(tasks[i].tags) = 2

\* C5: whenever the program waits at the menu after a command, or has
\* left through Exit, the file exists or nothing was ever saved, and
\* loading it gives exactly the manager in memory; a failed save never
\* leads back to the menu.
FileMatchesMemory ==
    /\ (pc = "menu" /\ last.op # "none") => file.exists
    /\ Running => load(file) = [ok |-> TRUE, tasks |-> tasks, next_id |-> next_id]

\* At the menu after a delete that removed a task.
FileMatchesMemoryWitness ==
    pc = "menu" /\ last.op = "delete" /\ last.ret # None /\ Len(tasks) >= 1

\* C6: Complete Task with an id no task has reports "not found" (None)
\* and leaves the task vector, every field of every task and next_id as
\* they were (seen when the loop goes on to the next menu).
CompleteMissingLeavesStore ==
    [][(/\ pc = "menu" /\ pc' = "menu"
        /\ last'.op = "complete"
        /\ \A i \in 1..Len(tasks) : tasks[i].id # last'.arg.id)
       => (last'.ret = None /\ tasks' = tasks /\ next_id' = next_id)]_vars

\* A Complete Task that found nothing, in a store that holds a task.
CompleteMissingLeavesStoreWitness ==
    pc = "menu" /\ last.op = "complete" /\ last.ret = None /\ Len(tasks) >= 1

\* C7: load of a file that does not exist gives, without an error, the
\* empty manager with next_id 1, and the first task added to a store that
\* began so has id 1.
LoadMissingFile ==
    [][/\ (pc = "start" /\ ~file.exists)
          => (pc' = "menu" /\ tasks' = <<>> /\ next_id' = 1 /\ ~file'.exists)
       /\ (last'.op = "add" /\ Len(assigned') = 1) => last'.ret[1].id = 1]_vars

\* The first Add Task of a store that began with no file.
LoadMissingFileWitness ==
    pc = "menu" /\ last.op = "add" /\ Len(assigned) = 1 /\ Len(tasks) = 1

\* f occurs in s as a substring when case is ignored.
ContainsIgnoringCase(s, f) ==
    \E i \in 1..(Len(s) - Len(f) + 1) :
        \A j \in 1..Len(f) : char_to_lowercase(s[i + j - 1]) = char_to_lowercase(f[j])

\* The task has a tag equal to lowercase(f), or a description containing f.
Matches(t, f) ==
    \/ \E k \in 1..Len(t.tags) : t.tags[k] = to_lowercase(f)
    \/ ContainsIgnoringCase(t.description, f)

\* The tasks of the lines printed, in the order printed.
Listed(out) == [k \in 1..Len(out) |-> out[k].task]

\* C8: Search Tasks with the filter f prints, in store order, exactly the
\* tasks with a tag equal to lowercase(f) or with a description containing
\* f as a substring when case is ignored.
SearchYieldsMatches ==
    (pc = "menu" /\ last.op = "search") =>
        LET Test(t) == Matches(t, last.arg.filter[1])
        IN  Listed(last.out) = SelectSeq(tasks, Test)

\* A search that printed the second of two tasks.
SearchYieldsMatchesWitness ==
    /\ pc = "menu" /\ last.op = "search"
    /\ Len(tasks) = 2 /\ Listed(last.out) = <<tasks[2]>>

\* C9: Edit Task of an existing task with an empty due date line leaves
\* the task without a due date, whatever it had; with the line 2024-3-5
\* the due date is 5 March 2024.
EditSetsDueDate ==
    (pc = "menu" /\ last.op = "edit" /\ last.arg.in # None) =>
        /\ last.ret # None
        /\ LET t == last.ret[1]
               in == last.arg.in[1]
           IN  /\ t.id = last.arg.id
               /\ \E i \in 1..Len(tasks) : tasks[i] = t
               /\ in.due_date = <<>> => t.due_date = None
               /\ in.due_date = Line_2024_3_5 => t.due_date = Some(Date_2024_03_05)

\* An edit with an empty due date line of the task added with due date
\* 2024-01-01.
EditSetsDueDateWitness ==
    /\ pc = "menu" /\ last.op = "edit" /\ last.ret # None
    /\ last.arg.in[1].due_date = <<>>
    /\ last.ret[1].description = <<"A", "b">>
    /\ last.ret[1].due_date = None

\* a is a day before b.
Before(a, b) == 372 * a.y + 31 * a.m + a.d < 372 * b.y + 31 * b.m + b.d

\* s is the one status the task has on the day `today`.
Classifies(s, t, today) ==
    /\ s \in {"Done", "Overdue", "DueToday", "Pending"}
    /\ s = "Done" <=> t.completed
    /\ s = "Overdue" <=>
           (~t.completed /\ t.due_date # None /\ Before(t.due_date[1], today))
    /\ s = "DueToday" <=> (~t.completed /\ t.due_date = Some(today))
    /\ s = "Pending" <=>
           (~t.completed /\ (t.due_date = None \/ Before(today, t.due_date[1])))

\* C10: every line List Tasks or Search Tasks prints carries the one
\* status its task has on the day of the listing: Done when completed
\* whatever the due date, else Overdue when due before today, DueToday when
\* due today, Pending when there is no due date or it is after today; List
\* Tasks prints a line for every task.
StatusClassifies ==
    (pc = "menu" /\ last.op \in {"list", "search"}) =>
        /\ last.op = "list" => Listed(last.out) = tasks
        /\ \A k \in 1..Len(last.out) :
               Classifies(last.out[k].status, last.out[k].task, last.arg.today[1])

\* A listing with an overdue task and a completed task whose due date has
\* passed.
StatusClassifiesWitness ==
    /\ pc = "menu" /\ last.op = "list"
    /\ \E k \in 1..Len(last.out) : last.out[k].status = "Overdue"
    /\ \E k \in 1..Len(last.out) :
           /\ last.out[k].status = "Done"
           /\ last.out[k].task.due_date = Some(Date_2024_01_01)

\* ts without its element at position i.
Without(ts, i) ==
    [k \in 1..(Len(ts) - 1) |-> IF k < i THEN ts[k] ELSE ts[k + 1]]

CompleteIdempotent ==
    /\ [][(/\ pc = "menu" /\ pc' = "menu"
           /\ last'.op = "complete"
           /\ \E i \in 1..Len(tasks) :
                  tasks[i].id = last'.arg.id /\ tasks[i].completed)
          => /\ \E i \in 1..Len(tasks) :
                    tasks[i].id = last'.arg.id /\ last'.ret = Some(tasks[i])
             /\ tasks' = tasks
             /\ next_id' = next_id]_vars
    /\ [](Running =>
            \A id \in Ids :
                LET once == complete_task(tasks, id)
                    twice == complete_task(once.tasks, id)
                IN  /\ twice.tasks = once.tasks
                    /\ once.ret # None => twice.ret = once.ret)

\* Complete Task has just returned a task that is completed, next to one
\* that is not.
CompleteIdempotentWitness ==
    /\ pc = "menu" /\ last.op = "complete" /\ last.ret # None
    /\ Len(tasks) = 2
    /\ \E i, j \in 1..2 : tasks[i].completed /\ ~tasks[j].completed

\* The string is what to_lowercase gives for it, does not begin or end
\* with whitespace, and is not empty.
Normalised(tag) ==
    /\ tag # <<>>
    /\ ~is_whitespace(tag[1])
    /\ ~is_whitespace(tag[Len(tag)])
    /\ \A i \in 1..Len(tag) : \A u \in 1..Len(Upper) : tag[i] # Upper[u]

\* C13: in every store reached through Add Task and Edit Task, whatever
\* was typed at the tags prompt, each tag of each task is lowercase, has no
\* whitespace at either end and is not empty.
TagsNormalised ==
    \A i \in 1..Len(tasks) :
        \A k \in 1..Len(tasks[i].tags) : Normalised(tasks[i].tags[k])

\* A task added with the tags line " B, ,c" holds the tags b and c.
TagsNormalisedWitness ==
    /\ pc = "menu" /\ last.op = "add"
    /\ last.arg.in[1].tags = <<" ", "B", ",", " ", ",", "c">>
    /\ last.ret[1].tags = << <<"b">>, <<"c">> >>
    /\ \E i \in 1..Len(tasks) : tasks[i] = last.ret[1]

\* C14: Edit Task of a task in the store changes nothing but that task's
\* description, tags and due date: the task keeps its id, its completed
\* flag and its place in the vector, every other task is as it was, and so
\* is next_id.
EditChangesOnlyThreeFields ==
    [][(/\ pc = "menu" /\ pc' = "menu"
        /\ last'.op = "edit"
        /\ \E i \in 1..Len(tasks) : tasks[i].id = last'.arg.id)
       => /\ Len(tasks') = Len(tasks)
          /\ \A k \in 1..Len(tasks) :
                 IF tasks[k].id = last'.arg.id
                 THEN /\ tasks'[k].id = tasks[k].id
                      /\ tasks'[k].completed = tasks[k].completed
                      /\ last'.ret = Some(tasks'[k])
                 ELSE tasks'[k] = tasks[k]
          /\ next_id' = next_id]_vars

\* The second of two tasks, a completed one, has been given a new
\* description, due date and tags.
EditChangesOnlyThreeFieldsWitness ==
    /\ pc = "menu" /\ last.op = "edit" /\ last.ret # None
    /\ last.arg.in[1].due_date = Line_2024_3_5
    /\ Len(tasks) = 2 /\ tasks[2] = last.ret[1]
    /\ tasks[2].completed
    /\ tasks[2].description = <<"c", "\"">>
    /\ tasks[2].due_date = Some(Date_2024_03_05)

\* C15: when the file exists and cannot be read, or does not parse, load
\* returns the error, the run ends without reaching the menu, and the run
\* leaves the file as it found it: nothing is saved after a failed load.
LoadErrorEndsRun ==
    [][/\ (pc = "start" /\ file.exists /\ ~from_str(file.contents).ok)
          => (pc' = "failed" /\ last'.op = "load")
       /\ (pc = "start" /\ pc' # "menu")
          => (file.exists /\ pc' = "failed" /\ last'.op = "load" /\ file' = file)
       /\ (pc = "failed" /\ last.op = "load")
          => (pc' = "start" /\ file' = file)]_vars

\* A run has ended on loading a file that does not parse.
LoadErrorEndsRunWitness ==
    /\ pc = "failed" /\ last.op = "load"
    /\ file.exists /\ ~from_str(file.contents).ok

\* C16: Add Task puts exactly one task at the end of the vector, with the
\* id next_id had before, completed false; next_id goes up by exactly 1;
\* the tasks that were there stay as they were and in their order; it
\* returns no error.
AddAppendsOne ==
    [][(pc = "menu" /\ pc' = "menu" /\ last'.op = "add")
       => /\ Len(tasks') = Len(tasks) + 1
          /\ SubSeq(tasks', 1, Len(tasks)) = tasks
          /\ tasks'[Len(tasks')].id = next_id
          /\ tasks'[Len(tasks')].completed = FALSE
          /\ last'.ret = Some(tasks'[Len(tasks')])
          /\ next_id' = next_id + 1]_vars

\* A task has been added behind a completed one.
AddAppendsOneWitness ==
    /\ pc = "menu" /\ last.op = "add"
    /\ Len(tasks) = 2 /\ tasks[2] = last.ret[1]
    /\ tasks[1].completed /\ ~tasks[2].completed

\* C17: while a manager lives next_id never goes down and only Add Task
\* changes it: Complete, Delete, Edit, List and Search, whether they find
\* the task or not, leave it as it was, and List and Search leave the
\* whole store as it was.
NextIdChangesOnlyOnAdd ==
    [][(pc = "menu" /\ Running')
       => /\ next_id' >= next_id
          /\ next_id' # next_id => last'.op = "add"
          /\ last'.op \in {"complete", "delete", "edit", "list", "search"}
                 => next_id' = next_id
          /\ last'.op \in {"list", "search"} => tasks' = tasks]_vars

\* A search that printed one of the two tasks in the store.
NextIdChangesOnlyOnAddWitness ==
    /\ pc = "menu" /\ last.op = "search"
    /\ Len(tasks) = 2 /\ Len(last.out) = 1
    /\ next_id = 3

\* C18: Delete Task and Edit Task with an id no task has report "not
\* found" (None) and leave the task vector, every field of every task and
\* next_id as they were; Edit Task then asks for no description, due date
\* or tags.
DeleteEditMissingLeaveStore ==
    [][(/\ pc = "menu" /\ pc' = "menu"
        /\ last'.op \in {"delete", "edit"}
        /\ \A i \in 1..Len(tasks) : tasks[i].id # last'.arg.id)
       => /\ last'.ret = None
          /\ tasks' = tasks
          /\ next_id' = next_id
          /\ last'.arg.in = None]_vars

\* An Edit Task that found nothing, in a store that holds a task.
DeleteEditMissingLeaveStoreWitness ==
    /\ pc = "menu" /\ last.op = "edit" /\ last.ret = None
    /\ last.arg.in = None
    /\ Len(tasks) >= 1

\* No two tasks of the vector have the same id, and n is above every id.
StoreInvariants(ts, n) ==
    /\ \A i, j \in 1..Len(ts) : i # j => ts[i].id # ts[j].id
    /\ \A i \in 1..Len(ts) : ts[i].id < n

\* C19: the store that load returns for a file that parses has pairwise
\* distinct task ids and a next_id above every task id, and so the task
\* that Add Task appends has an id that no task already in the store has.
LoadedStoreWellFormed ==
    pc = "menu" =>
        /\ last.op = "none" => StoreInvariants(tasks, next_id)
        /\ last.op = "add" =>
               \A i \in 1..(Len(tasks) - 1) : tasks[i].id # last.ret[1].id

\* Add Task has appended a task with the id of a task that was in the
\* store loaded.
AddAfterLoadRepeatsId ==
    /\ pc = "menu" /\ last.op = "add"
    /\ Len(tasks) = 2 /\ tasks[2] = last.ret[1]
    /\ tasks[1].id = tasks[2].id

=============================================================================
